---------------------------- MODULE Spec2Model ----------------------------
(***************************************************************************)
(* A model of fruitfly.py: the humanized-number helpers                    *)
(* (parse_humanized_string, detect_humanized_number), the stride sampler   *)
(* sample_bz2, the per-filter task bloom_match and the fan-out/fan-in      *)
(* command find_matches.                                                   *)
(*                                                                         *)
(* A string is a sequence of one-character strings: "128K" is              *)
(* <<"1","2","8","K">>.  A path is a sequence of path symbols, see Stem.   *)
(***************************************************************************)
EXTENDS Integers, Sequences, FiniteSets, TLC

VARIABLES
    \* ---- the humanized-number helpers ----
    some_string,      \* the text handed to the helpers
    first_result,     \* what detect_humanized_number returned (or raised)
    numeric,          \* what parse_humanized_string returned (or raised)
    hpc,              \* position of the helper pipeline
    \* ---- sample_bz2 ----
    total_lines,      \* line 60: the size hint
    num_lines,        \* the requested number of lines
    afile,            \* the lines of the bz2 file
    num,              \* line 67: the stride
    pos,              \* how many lines the for loop has consumed
    draws,            \* the value random.randrange returned for each line
    chosen_lines,     \* line 65
    spc,              \* position of sample_bz2
    \* ---- find_matches ----
    filter_files,     \* line 121: what glob.glob returned
    bloom,            \* per filter file: the set it holds, or Unloadable
    smiles_file,      \* the stripped lines of the SMILES file
    num_procs,        \* --num-procs
    include_unmatched,\* --include-unmatched
    n_processes,      \* lines 124-128
    smiles,           \* lines 130-133
    task,             \* per task of pool.map: queued, running, done, failed
    task_input,       \* per task: the query sequence the worker received
    task_result,      \* per task: the value bloom_match returned
    arrival,          \* the task indexes in the order their results arrived
    results,          \* line 137: the list pool.map returned
    merged,           \* how many elements of results the loop of 141 has merged
    results_dict,     \* line 140
    out_opens,        \* how many times the output file was opened for writing
    out_json,         \* the content of the output file
    fpc               \* position of find_matches

helperVars == <<some_string, first_result, numeric, hpc>>
sampleVars == <<total_lines, num_lines, afile, num, pos, draws, chosen_lines, spc>>
findVars == <<filter_files, bloom, smiles_file, num_procs, include_unmatched,
              n_processes, smiles, task, task_input, task_result, arrival,
              results, merged, results_dict, out_opens, out_json, fpc>>
vars == <<helperVars, sampleVars, findVars>>

\* ------------------------------------------------------------------------
\* Bounds of the model
\* ------------------------------------------------------------------------
MaxTextLen == 3
MaxLines == 3
MaxHint == 3
MaxFilters == 2
MaxQueries == 2

\* ------------------------------------------------------------------------
\* Strings
\* ------------------------------------------------------------------------
Digits == {"0", "1", "2", "3", "4", "5", "6", "7", "8", "9"}

DigitVal(c) ==
    CASE c = "0" -> 0 [] c = "1" -> 1 [] c = "2" -> 2 [] c = "3" -> 3
      [] c = "4" -> 4 [] c = "5" -> 5 [] c = "6" -> 6 [] c = "7" -> 7
      [] c = "8" -> 8 [] c = "9" -> 9

\* str.upper on one character of the model's alphabet
UpperChar(c) ==
    CASE c = "k" -> "K" [] c = "m" -> "M" [] c = "b" -> "B" [] c = "x" -> "X"
      [] OTHER -> c

upper(s) == [i \in 1..Len(s) |-> UpperChar(s[i])]

Whitespace == {" "}

RECURSIVE lstrip(_)
lstrip(s) == IF s # <<>> /\ Head(s) \in Whitespace THEN lstrip(Tail(s)) ELSE s

RECURSIVE rstrip(_)
rstrip(s) ==
    IF s # <<>> /\ s[Len(s)] \in Whitespace
    THEN rstrip(SubSeq(s, 1, Len(s) - 1)) ELSE s

strip(s) == rstrip(lstrip(s))

RECURSIVE Pow10(_)
Pow10(n) == IF n = 0 THEN 1 ELSE 10 * Pow10(n - 1)

\* the value of a sequence of digit characters (0 for the empty one)
RECURSIVE DigitsValue(_)
DigitsValue(s) ==
    IF s = <<>> THEN 0
    ELSE 10 * DigitsValue(SubSeq(s, 1, Len(s) - 1)) + DigitVal(s[Len(s)])

AllIn(s, S) == \A i \in 1..Len(s) : s[i] \in S

ValueError == [ok |-> FALSE, err |-> "ValueError"]
Ok(v) == [ok |-> TRUE, val |-> v]
NoValue == [ok |-> FALSE, err |-> "unset"]

EndsWith(s, c) == s # <<>> /\ s[Len(s)] = c

Signs == {"-", "+"}

\* the part of a numeric literal after its optional sign
Unsigned(t) == IF t # <<>> /\ t[1] \in Signs THEN Tail(t) ELSE t
IsNegative(t) == t # <<>> /\ t[1] = "-"

DotCount(s) == Cardinality({i \in 1..Len(s) : s[i] = "."})
DigitCount(s) == Cardinality({i \in 1..Len(s) : s[i] \in Digits})
IsDigit(c) == c \in Digits

\* float(s), line 20: surrounding whitespace is dropped, then an optional
\* sign, then digits with at most one decimal point and at least one digit.
\* The value is kept exactly, as mant / 10^frac, negated when neg.
float(s) ==
    LET t == strip(s)
        body == Unsigned(t)
    IN  IF /\ body # <<>>
           /\ AllIn(body, Digits \cup {"."})
           /\ DotCount(body) <= 1
           /\ DigitCount(body) >= 1
        THEN LET dot == IF DotCount(body) = 1
                        THEN CHOOSE i \in 1..Len(body) : body[i] = "."
                        ELSE Len(body)
             IN  Ok([neg |-> IsNegative(t),
                     mant |-> DigitsValue(SelectSeq(body, IsDigit)),
                     frac |-> Len(body) - dot])
        ELSE ValueError

\* int(s), line 25: surrounding whitespace is dropped, then an optional
\* sign and at least one digit
int(s) ==
    LET t == strip(s)
        body == Unsigned(t)
    IN  IF body # <<>> /\ AllIn(body, Digits)
        THEN Ok(IF IsNegative(t) THEN 0 - DigitsValue(body) ELSE DigitsValue(body))
        ELSE ValueError

\* int(f * multiplier), line 20-21: the product, truncated toward zero
Truncate(f, multiplier) ==
    LET magnitude == (f.mant * multiplier) \div Pow10(f.frac)
    IN  IF f.neg THEN 0 - magnitude ELSE magnitude

\* line 16, in the order the dict is iterated
Suffixes == <<"K", "M", "B">>

MultiplierSwapped(suffix) ==
    CASE suffix = "K" -> 1000000
      [] suffix = "M" -> 1000
      [] suffix = "B" -> 1000000000

Multiplier(suffix) ==
    CASE suffix = "K" -> 1000
      [] suffix = "M" -> 1000000
      [] suffix = "B" -> 1000000000

\* lines 13-27
parse_humanized_string(humanized_string) ==
    LET h == upper(strip(humanized_string))
        hits == {k \in 1..Len(Suffixes) : EndsWith(h, Suffixes[k])}
    IN  IF hits # {}
        THEN LET first == CHOOSE k \in hits : \A j \in hits : k <= j
                 numeric_value == float(SubSeq(h, 1, Len(h) - 1))
             IN  IF numeric_value.ok
                 THEN Ok(Truncate(numeric_value.val, Multiplier(Suffixes[first])))
                 ELSE ValueError
        ELSE int(h)

SuffixChars == {"k", "K", "m", "M", "b", "B"}

\* whether s[i..e] matches [-+]?(?:\d*\.*\d+)[kKmMbB] (line 31)
RegexMatches(s, i, e) ==
    \E sg \in {0, 1} : \E a, b \in 0..Len(s) : \E c \in 1..Len(s) :
        /\ e = i + sg + a + b + c
        /\ e <= Len(s)
        /\ sg = 1 => s[i] \in Signs
        /\ AllIn(SubSeq(s, i + sg, i + sg + a - 1), Digits)
        /\ AllIn(SubSeq(s, i + sg + a, i + sg + a + b - 1), {"."})
        /\ AllIn(SubSeq(s, i + sg + a + b, e - 1), Digits)
        /\ s[e] \in SuffixChars

\* lines 29-37: re.search returns the match with the leftmost start; from
\* one start the pattern has at most one end, the first suffix character
detect_humanized_number(s) ==
    LET starts == {i \in 1..Len(s) : \E e \in i..Len(s) : RegexMatches(s, i, e)}
    IN  IF starts = {} THEN ValueError
        ELSE LET i == CHOOSE x \in starts : \A y \in starts : x <= y
                 e == CHOOSE x \in i..Len(s) : RegexMatches(s, i, x)
             IN  Ok(SubSeq(s, i, e))
\* ------------------------------------------------------------------------
\* The helper pipeline: detect_humanized_number, then
\* parse_humanized_string on what it found (line 60), or
\* parse_humanized_string on the text itself
\* ------------------------------------------------------------------------
TextAlphabet == {"4", "2", ".", "-", "K", "m", "x", " "}

SeqsUpTo(S, n) == UNION {[1..k -> S] : k \in 0..n}

Token128K == <<"1", "2", "8", "K">>
Token5M == <<"5", "M">>
Token2B == <<"2", "B">>
Token42 == <<"4", "2">>
ClaimTokens == {Token128K, Token5M, Token2B, Token42}

Texts == ClaimTokens \cup SeqsUpTo(TextAlphabet, MaxTextLen)

\* detect_humanized_number(some_string)
Detect ==
    /\ hpc = "start"
    /\ first_result' = detect_humanized_number(some_string)
    /\ hpc' = IF first_result'.ok THEN "detected" ELSE "not_found"
    /\ UNCHANGED <<some_string, numeric>>
    /\ UNCHANGED <<sampleVars, findVars>>

\* parse_humanized_string(first_result)
Convert ==
    /\ hpc = "detected"
    /\ numeric' = parse_humanized_string(first_result.val)
    /\ hpc' = IF numeric'.ok THEN "converted" ELSE "format_error"
    /\ UNCHANGED <<some_string, first_result>>
    /\ UNCHANGED <<sampleVars, findVars>>

\* parse_humanized_string(some_string)
ParseDirect ==
    /\ hpc = "start"
    /\ numeric' = parse_humanized_string(some_string)
    /\ hpc' = IF numeric'.ok THEN "parsed" ELSE "parse_error"
    /\ UNCHANGED <<some_string, first_result>>
    /\ UNCHANGED <<sampleVars, findVars>>


\* ------------------------------------------------------------------------
\* sample_bz2 (lines 42-74)
\* ------------------------------------------------------------------------
LineValues == {"l1", "l2"}

Abs(n) == IF n < 0 THEN 0 - n ELSE n

\* int(a / b), line 67: the quotient truncated toward zero (b # 0)
IntDiv(a, b) ==
    IF (a < 0) = (b < 0) THEN Abs(a) \div Abs(b) ELSE 0 - (Abs(a) \div Abs(b))

AdmitInFront(chosen, aline, draw) ==
    IF draw # 0 THEN chosen ELSE <<aline>> \o chosen

\* lines 69-71: the line is skipped on a non-zero draw, appended otherwise
Admit(chosen, aline, draw) ==
    IF draw # 0 THEN chosen ELSE Append(chosen, aline)

\* lines 60-67: the stride; a zero num_lines makes the division raise
SampleStart ==
    /\ spc = "start"
    /\ IF num_lines = 0
       THEN /\ spc' = "ZeroDivisionError"
            /\ UNCHANGED num
       ELSE /\ num' = IntDiv(total_lines, num_lines)
            /\ spc' = "loop"
    /\ chosen_lines' = <<>>
    /\ UNCHANGED <<total_lines, num_lines, afile, pos, draws>>
    /\ UNCHANGED <<helperVars, findVars>>

\* lines 68-71, one iteration: random.randrange(num) raises ValueError for
\* num <= 0 and returns a value of 0..num-1 otherwise
SampleLine ==
    /\ spc = "loop"
    /\ pos < Len(afile)
    /\ pos' = pos + 1
    /\ IF num <= 0
       THEN /\ spc' = "ValueError"
            /\ UNCHANGED <<draws, chosen_lines>>
       ELSE \E draw \in 0..(num - 1) :
            /\ draws' = Append(draws, draw)
            /\ chosen_lines' = Admit(chosen_lines, afile[pos + 1], draw)
            /\ UNCHANGED spc
    /\ UNCHANGED <<total_lines, num_lines, afile, num>>
    /\ UNCHANGED <<helperVars, findVars>>

\* lines 73-74: the file is exhausted
SampleReturn ==
    /\ spc = "loop"
    /\ pos = Len(afile)
    /\ spc' = "done"
    /\ UNCHANGED <<total_lines, num_lines, afile, num, pos, draws, chosen_lines>>
    /\ UNCHANGED <<helperVars, findVars>>


\* ------------------------------------------------------------------------
\* bloom_match (lines 82-111)
\* ------------------------------------------------------------------------
\* A path is a sequence of symbols: "/" separates its components, "." starts
\* a suffix, every other symbol stands for a run of ordinary characters.
PathXA == <<"x", "/", "A", ".", "bloom">>
PathYA == <<"y", "/", "A", ".", "bloom">>
PathUnmatched == <<"unmatched", ".", "bloom">>
CandidatePaths == {PathXA, PathYA, PathUnmatched}

Universe == {"CCO", "CCN"}
\* what BloomFilter(path) finds: a file it cannot load, or a filter that
\* answers "in" for the members
Unloadable == [loadable |-> FALSE, members |-> {}]
Structures ==
    {[loadable |-> TRUE, members |-> m] : m \in SUBSET Universe} \cup {Unloadable}

Range(f) == {f[x] : x \in DOMAIN f}

LastIndexOf(s, c) ==
    IF \E i \in 1..Len(s) : s[i] = c
    THEN CHOOSE i \in 1..Len(s) : s[i] = c /\ \A j \in (i + 1)..Len(s) : s[j] # c
    ELSE 0

\* PurePath.name: the final component
Name(path) == SubSeq(path, LastIndexOf(path, "/") + 1, Len(path))

\* Path(bloom_file).stem, line 108: the final component without its last
\* suffix; a leading or a trailing dot starts no suffix
Stem(path) ==
    LET name == Name(path)
        dot == LastIndexOf(name, ".")
    IN  IF 1 < dot /\ dot < Len(name) THEN SubSeq(name, 1, dot - 1) ELSE name

RECURSIVE MatchesOnce(_, _)
MatchesOnce(bf, smiles_iterable) ==
    IF smiles_iterable = <<>> THEN <<>>
    ELSE LET smile == Head(smiles_iterable)
             rest == MatchesOnce(bf \ {smile}, Tail(smiles_iterable))
         IN  IF smile \in bf THEN <<smile>> \o rest ELSE rest

\* lines 103-106: the loop over smiles_iterable
RECURSIVE Matches(_, _)
Matches(bf, smiles_iterable) ==
    IF smiles_iterable = <<>> THEN <<>>
    ELSE LET smile == Head(smiles_iterable)
             rest == Matches(bf, Tail(smiles_iterable))
         IN  IF smile \in bf THEN <<smile>> \o rest ELSE rest

\* lines 82-111; BloomFilter(bloom_file) raises for a file it cannot load
bloom_match(bloom_file, smiles_iterable) ==
    LET bf == bloom[bloom_file]
    IN  IF ~bf.loadable THEN [ok |-> FALSE, err |-> "load"]
        ELSE Ok(Stem(bloom_file) :> Matches(bf.members, smiles_iterable))

\* ------------------------------------------------------------------------
\* find_matches (lines 119-156)
\* ------------------------------------------------------------------------
EmptyDict == <<>>
\* the output file: no document before it is written, one after
NoFile == <<>>
UnmatchedKey == <<"unmatched">>

NumProcsChoices == {-1, 1, 2}

IsInjective(s) == \A i, j \in 1..Len(s) : s[i] = s[j] => i = j

\* glob.glob returns each matching path once
FilterLists == {fs \in SeqsUpTo(CandidatePaths, MaxFilters) : IsInjective(fs)}

UpdateKeepFirst(d, r) ==
    [k \in DOMAIN d \cup DOMAIN r |-> IF k \in DOMAIN d THEN d[k] ELSE r[k]]

\* dict.update, line 142
Update(d, r) ==
    [k \in DOMAIN d \cup DOMAIN r |-> IF k \in DOMAIN r THEN r[k] ELSE d[k]]

RECURSIVE Complement(_, _)
Complement(qs, matched) ==
    IF qs = <<>> THEN <<>>
    ELSE IF Head(qs) \notin matched
         THEN <<Head(qs)>> \o Complement(Tail(qs), matched)
         ELSE Complement(Tail(qs), matched)

AddUnmatchedByAll(d, qs) ==
    LET reset == Update(d, UnmatchedKey :> <<>>)
        matched == {q \in Universe : \A k \in DOMAIN d : q \in Range(d[k])}
    IN  Update(reset, UnmatchedKey :> Complement(qs, matched))

\* lines 146-153: the reserved key is reset, then receives every query
\* found in no value of the dict
AddUnmatched(d, qs) ==
    LET reset == Update(d, UnmatchedKey :> <<>>)
        matched == UNION {Range(reset[k]) : k \in DOMAIN reset}
    IN  Update(reset, UnmatchedKey :> Complement(qs, matched))

Tasks == 1..Len(filter_files)
Running == {i \in Tasks : task[i] = "running"}

MapReadySomeDone == \E i \in Tasks : task[i] = "done"

MapReadyIgnoringFailures == \A i \in Tasks : task[i] \in {"done", "failed"}

\* pool.map returns once every task has returned its value
MapReady == \A i \in Tasks : task[i] = "done"

\* pool.map raises the exception of a failed task
MapFailed == \E i \in Tasks : task[i] = "failed"

MapResultsInArrivalOrder == [k \in Tasks |-> task_result[arrival[k]]]

\* pool.map returns the values in the order of its input list
MapResults == [i \in Tasks |-> task_result[i]]

findInputs == <<filter_files, bloom, smiles_file, num_procs, include_unmatched>>

\* lines 121-137, up to the point where pool.map waits: the glob check, the
\* pool size, the queries, one queued task per filter file
FindStart ==
    /\ fpc = "start"
    /\ IF filter_files = <<>>
       THEN /\ fpc' = "raised"
            /\ UNCHANGED <<n_processes, smiles, task, task_input, task_result>>
       ELSE /\ n_processes' = IF num_procs < 1 THEN Len(filter_files) ELSE num_procs
            /\ smiles' = smiles_file
            /\ task' = [i \in Tasks |-> "queued"]
            /\ task_input' = [i \in Tasks |-> <<>>]
            /\ task_result' = [i \in Tasks |-> EmptyDict]
            /\ fpc' = "map"
    /\ UNCHANGED <<findInputs, arrival, results, merged, results_dict,
                   out_opens, out_json>>
    /\ UNCHANGED <<helperVars, sampleVars>>

\* a free worker takes the next task of the queue (chunksize=1) with its
\* copy of the queries
TaskStart(i) ==
    /\ fpc = "map"
    /\ task[i] = "queued"
    /\ \A j \in 1..(i - 1) : task[j] # "queued"
    /\ Cardinality(Running) < n_processes
    /\ task' = [task EXCEPT ![i] = "running"]
    /\ task_input' = [task_input EXCEPT ![i] = smiles]
    /\ UNCHANGED <<findInputs, n_processes, smiles, task_result, arrival,
                   results, merged, results_dict, out_opens, out_json, fpc>>
    /\ UNCHANGED <<helperVars, sampleVars>>

\* the worker runs bloom_match and its value, or its exception, arrives
TaskFinish(i) ==
    /\ fpc = "map"
    /\ task[i] = "running"
    /\ LET r == bloom_match(filter_files[i], task_input[i])
       IN  IF r.ok
           THEN /\ task' = [task EXCEPT ![i] = "done"]
                /\ task_result' = [task_result EXCEPT ![i] = r.val]
           ELSE /\ task' = [task EXCEPT ![i] = "failed"]
                /\ UNCHANGED task_result
    /\ arrival' = Append(arrival, i)
    /\ UNCHANGED <<findInputs, n_processes, smiles, task_input,
                   results, merged, results_dict, out_opens, out_json, fpc>>
    /\ UNCHANGED <<helperVars, sampleVars>>

\* line 137 returns; line 140
PoolMapReturn ==
    /\ fpc = "map"
    /\ MapReady
    /\ results' = MapResults
    /\ results_dict' = EmptyDict
    /\ fpc' = "merge"
    /\ UNCHANGED <<findInputs, n_processes, smiles, task, task_input,
                   task_result, arrival, merged, out_opens, out_json>>
    /\ UNCHANGED <<helperVars, sampleVars>>

\* line 137 raises; leaving the with block terminates the pool
PoolMapRaise ==
    /\ fpc = "map"
    /\ MapFailed
    /\ fpc' = "raised"
    /\ UNCHANGED <<findInputs, n_processes, smiles, task, task_input,
                   task_result, arrival, results, merged, results_dict,
                   out_opens, out_json>>
    /\ UNCHANGED <<helperVars, sampleVars>>

\* lines 141-142, one iteration
MergeStep ==
    /\ fpc = "merge"
    /\ merged < Len(results)
    /\ results_dict' = Update(results_dict, results[merged + 1])
    /\ merged' = merged + 1
    /\ UNCHANGED <<findInputs, n_processes, smiles, task, task_input,
                   task_result, arrival, results, out_opens, out_json, fpc>>
    /\ UNCHANGED <<helperVars, sampleVars>>

\* lines 145-153
Unmatched ==
    /\ fpc = "merge"
    /\ merged = Len(results)
    /\ results_dict' = IF include_unmatched
                       THEN AddUnmatched(results_dict, smiles)
                       ELSE results_dict
    /\ fpc' = "write"
    /\ UNCHANGED <<findInputs, n_processes, smiles, task, task_input,
                   task_result, arrival, results, merged, out_opens, out_json>>
    /\ UNCHANGED <<helperVars, sampleVars>>

\* lines 155-156
WriteOutput ==
    /\ fpc = "write"
    /\ out_opens' = out_opens + 1
    /\ out_json' = <<results_dict>>
    /\ fpc' = "done"
    /\ UNCHANGED <<findInputs, n_processes, smiles, task, task_input,
                   task_result, arrival, results, merged, results_dict>>
    /\ UNCHANGED <<helperVars, sampleVars>>

\* ------------------------------------------------------------------------
\* Specifications
\* ------------------------------------------------------------------------

\* the helpers on a text of Texts; the two commands are not run
InitHelpers ==
    /\ some_string \in Texts
    /\ first_result = NoValue
    /\ numeric = NoValue
    /\ hpc = "start"
    /\ total_lines = 0
    /\ num_lines = 0
    /\ afile = <<>>
    /\ num = 0
    /\ pos = 0
    /\ draws = <<>>
    /\ chosen_lines = <<>>
    /\ spc = "idle"
    /\ filter_files = <<>>
    /\ bloom = <<>>
    /\ smiles_file = <<>>
    /\ num_procs = 0
    /\ include_unmatched = FALSE
    /\ n_processes = 0
    /\ smiles = <<>>
    /\ task = <<>>
    /\ task_input = <<>>
    /\ task_result = <<>>
    /\ arrival = <<>>
    /\ results = <<>>
    /\ merged = 0
    /\ results_dict = EmptyDict
    /\ out_opens = 0
    /\ out_json = NoFile
    /\ fpc = "idle"

NextHelpers ==
    \/ Detect
    \/ Convert
    \/ ParseDirect

SpecHelpers == InitHelpers /\ [][NextHelpers]_vars

\* sample_bz2 on a size hint, a line count and a file
InitSample ==
    /\ some_string = <<>>
    /\ first_result = NoValue
    /\ numeric = NoValue
    /\ hpc = "idle"
    /\ total_lines \in (0 - MaxHint)..MaxHint
    /\ num_lines \in 0..MaxHint
    /\ afile \in SeqsUpTo(LineValues, MaxLines)
    /\ num = 0
    /\ pos = 0
    /\ draws = <<>>
    /\ chosen_lines = <<>>
    /\ spc = "start"
    /\ filter_files = <<>>
    /\ bloom = <<>>
    /\ smiles_file = <<>>
    /\ num_procs = 0
    /\ include_unmatched = FALSE
    /\ n_processes = 0
    /\ smiles = <<>>
    /\ task = <<>>
    /\ task_input = <<>>
    /\ task_result = <<>>
    /\ arrival = <<>>
    /\ results = <<>>
    /\ merged = 0
    /\ results_dict = EmptyDict
    /\ out_opens = 0
    /\ out_json = NoFile
    /\ fpc = "idle"

NextSample ==
    \/ SampleStart
    \/ SampleLine
    \/ SampleReturn

SpecSample == InitSample /\ [][NextSample]_vars

\* find_matches on a glob result, the filters behind it, a SMILES file and
\* its options
InitFind ==
    /\ some_string = <<>>
    /\ first_result = NoValue
    /\ numeric = NoValue
    /\ hpc = "idle"
    /\ total_lines = 0
    /\ num_lines = 0
    /\ afile = <<>>
    /\ num = 0
    /\ pos = 0
    /\ draws = <<>>
    /\ chosen_lines = <<>>
    /\ spc = "idle"
    /\ filter_files \in FilterLists
    /\ bloom \in [Range(filter_files) -> Structures]
    /\ smiles_file \in SeqsUpTo(Universe, MaxQueries)
    /\ num_procs \in NumProcsChoices
    /\ include_unmatched \in BOOLEAN
    /\ n_processes = 0
    /\ smiles = <<>>
    /\ task = <<>>
    /\ task_input = <<>>
    /\ task_result = <<>>
    /\ arrival = <<>>
    /\ results = <<>>
    /\ merged = 0
    /\ results_dict = EmptyDict
    /\ out_opens = 0
    /\ out_json = NoFile
    /\ fpc = "start"

NextFind ==
    \/ FindStart
    \/ \E i \in Tasks : TaskStart(i)
    \/ \E i \in Tasks : TaskFinish(i)
    \/ PoolMapReturn
    \/ PoolMapRaise
    \/ MergeStep
    \/ Unmatched
    \/ WriteOutput

SpecFind == InitFind /\ [][NextFind]_vars

\* ------------------------------------------------------------------------
\* Properties
\* ------------------------------------------------------------------------
\* the elements of s at the indexes I, in the order of s
Pick(s, I) ==
    [k \in 1..Cardinality(I) |->
        s[CHOOSE i \in I : Cardinality({j \in I : j <= i}) = k]]

Identities == {Stem(filter_files[i]) : i \in Tasks}
SameIdentity(i, j) == i # j /\ Stem(filter_files[i]) = Stem(filter_files[j])
\* the task listed last, and the task whose result arrived last, among
\* those of identity k
LastListed(k) ==
    CHOOSE i \in Tasks :
        /\ Stem(filter_files[i]) = k
        /\ \A j \in Tasks : Stem(filter_files[j]) = k => j <= i
LastArrived(k) ==
    arrival[CHOOSE n \in 1..Len(arrival) :
        /\ Stem(filter_files[arrival[n]]) = k
        /\ \A m \in 1..Len(arrival) : Stem(filter_files[arrival[m]]) = k => m <= n]
MatchedKeys(d) == DOMAIN d \ {UnmatchedKey}

\* C1: after a run with include_unmatched the union of all sequences of the
\* written mapping, the "unmatched" one included, is the set of the queries,
\* and no query is both in a matched sequence and in "unmatched".
C1_UnmatchedPartitionsQueries ==
    (fpc = "done" /\ include_unmatched) =>
        LET d == out_json[1]
        IN  /\ UnmatchedKey \in DOMAIN d
            /\ UNION {Range(d[k]) : k \in DOMAIN d} = Range(smiles_file)
            /\ \A k \in MatchedKeys(d) :
                   Range(d[k]) \cap Range(d[UnmatchedKey]) = {}

C1_Witness ==
    /\ fpc = "done"
    /\ include_unmatched
    /\ \E i, j \in Tasks : SameIdentity(i, j)
    /\ out_json[1][UnmatchedKey] # <<>>
    /\ \E k \in MatchedKeys(out_json[1]) : out_json[1][k] # <<>>

\* C2: the output file is opened at most once, only by a run that reaches
\* its end, and then holds the complete mapping; a run with an empty glob
\* result or with a filter that cannot be loaded raises and never opens it.
C2_AllOrNothingOutput ==
    /\ out_opens <= 1
    /\ fpc = "done" => out_opens = 1 /\ out_json = <<results_dict>>
    /\ fpc # "done" => out_opens = 0 /\ out_json = NoFile
    /\ (filter_files = <<>> /\ fpc # "start") => fpc = "raised"
    /\ (\E i \in DOMAIN task : task[i] = "failed") =>
           fpc \in {"map", "raised"} /\ out_opens = 0
    /\ (\E q \in DOMAIN bloom : ~bloom[q].loadable) => out_opens = 0

C2_Witness ==
    /\ fpc = "raised"
    /\ out_json = NoFile
    /\ \E i, j \in Tasks : task[i] = "failed" /\ task[j] = "done"
    /\ task[arrival[1]] = "done"

\* C3 as stated: for two paths of one identity the key holds the result
\* that arrived last.
C3_LastArrivedWins ==
    fpc = "done" =>
        \A i, j \in Tasks : SameIdentity(i, j) =>
            LET k == Stem(filter_files[i])
            IN  out_json[1][k] = task_result[LastArrived(k)][k]

\* C3 as amended: for two paths of one identity the mapping has one key for
\* both, fewer keys than paths, and the key holds the result of the path
\* listed last, whichever task finished last.
C3_LastListedWins ==
    fpc = "done" =>
        \A i, j \in Tasks : SameIdentity(i, j) =>
            LET k == Stem(filter_files[i])
                d == out_json[1]
            IN  /\ k \in DOMAIN d
                /\ Cardinality(MatchedKeys(d)) < Len(filter_files)
                /\ (k # UnmatchedKey \/ ~include_unmatched) =>
                       d[k] = task_result[LastListed(k)][k]

C3_Witness ==
    /\ fpc = "done"
    /\ \E i, j \in Tasks :
        /\ i < j
        /\ SameIdentity(i, j)
        /\ LastArrived(Stem(filter_files[i])) = i
        /\ task_result[i] # task_result[j]
        /\ out_json[1][Stem(filter_files[i])] = task_result[j][Stem(filter_files[j])]

ExpectedValue(token) ==
    CASE token = Token128K -> 128000
      [] token = Token5M -> 5000000
      [] token = Token2B -> 2000000000
      [] token = Token42 -> 42

\* C4 as stated: for each of 128K, 5M, 2B and 42, detect_humanized_number
\* succeeds and parse_humanized_string of what it found is the value.
C4_AllTokensConvert ==
    some_string \in ClaimTokens =>
        /\ hpc \notin {"not_found", "format_error"}
        /\ hpc = "converted" => numeric = Ok(ExpectedValue(some_string))

\* C4 as amended: for 128K, 5M and 2B detect_humanized_number returns the
\* token and parse_humanized_string of it is 128000, 5000000, 2000000000;
\* for 42 detect_humanized_number raises, and parse_humanized_string of the
\* token itself is 42.
C4_SuffixedTokensConvert ==
    /\ some_string \in ClaimTokens \ {Token42} =>
        /\ hpc \notin {"not_found", "format_error", "parse_error"}
        /\ hpc \in {"detected", "converted"} => first_result = Ok(some_string)
        /\ hpc \in {"converted", "parsed"} =>
               numeric = Ok(ExpectedValue(some_string))
    /\ some_string = Token42 =>
        /\ hpc \notin {"detected", "converted", "format_error", "parse_error"}
        /\ hpc = "parsed" => numeric = Ok(ExpectedValue(Token42))

C4_Witness ==
    /\ some_string = Token128K
    /\ hpc = "converted"
    /\ first_result = Ok(Token128K)
    /\ numeric = Ok(ExpectedValue(Token128K))

\* C5: when the stride int(total_lines / num_lines) is below 1, sample_bz2
\* raises nothing and returns every line of the file.
C5_StrideBelowOneAdmitsAll ==
    (num_lines # 0 /\ IntDiv(total_lines, num_lines) < 1) =>
        /\ spc \notin {"ValueError", "ZeroDivisionError"}
        /\ spc = "done" => chosen_lines = afile

\* C6: with a stride of at least 1 the loop has drawn once for each line it
\* has passed, in file order, and chosen_lines holds exactly the lines
\* whose draw was 0, in file order; at the return every line was passed.
C6_ChosenAreZeroDraws ==
    (spc \in {"loop", "done"} /\ num >= 1) =>
        /\ Len(draws) = pos
        /\ pos <= Len(afile)
        /\ spc = "done" => pos = Len(afile)
        /\ chosen_lines = Pick(afile, {i \in 1..pos : draws[i] = 0})
        /\ Len(chosen_lines) <= Len(afile)

C6_Witness ==
    /\ spc = "done"
    /\ num >= 2
    /\ Len(afile) >= 2
    /\ draws[1] # 0
    /\ chosen_lines # <<>>
    /\ Len(chosen_lines) < Len(afile)

ExpectedIdentity(path) ==
    CASE path = PathXA -> <<"A">>
      [] path = PathYA -> <<"A">>
      [] path = PathUnmatched -> <<"unmatched">>

\* C7: the value of a finished bloom_match task is a mapping with one key,
\* the base name of its filter file without the extension, holding the
\* queries the filter answers "in" for, in query order with duplicates; the
\* queries are as they were read.
C7_BloomMatchFilters ==
    /\ fpc \notin {"start", "raised"} => smiles = smiles_file
    /\ \A i \in DOMAIN task : task[i] = "done" =>
        LET key == ExpectedIdentity(filter_files[i])
            qs == task_input[i]
            members == bloom[filter_files[i]].members
        IN  /\ qs = smiles_file
            /\ DOMAIN task_result[i] = {key}
            /\ task_result[i][key] =
                   Pick(qs, {n \in 1..Len(qs) : qs[n] \in members})

C7_Witness ==
    \E i \in DOMAIN task :
        /\ task[i] = "done"
        /\ filter_files[i] = PathXA
        /\ Len(task_input[i]) >= 2
        /\ task_input[i][1] = task_input[i][2]
        /\ task_result[i][<<"A">>] = task_input[i]

\* C8: there is one task per filter file, each started task received the
\* whole query list, each result arrives once, and nothing is merged,
\* computed or written before every task is done.
C8_FullBarrier ==
    /\ fpc \notin {"start", "raised"} => DOMAIN task = 1..Len(filter_files)
    /\ \A i \in DOMAIN task : task[i] # "queued" => task_input[i] = smiles_file
    /\ IsInjective(arrival)
    /\ (\/ fpc \in {"merge", "write", "done"}
        \/ merged > 0
        \/ results_dict # EmptyDict
        \/ out_opens > 0) => \A i \in Tasks : task[i] = "done"

C8_Witness ==
    /\ fpc = "merge"
    /\ merged = 1
    /\ Len(filter_files) >= 2
    /\ arrival[1] # 1

\* the complement of the matched queries, in query order
ComplementOf(d) ==
    LET matched == UNION {Range(d[k]) : k \in MatchedKeys(d)}
    IN  Pick(smiles_file, {n \in 1..Len(smiles_file) : smiles_file[n] \notin matched})

\* C9: in the written mapping the keys other than "unmatched" are one to
\* one with the filter files, each holding the matches of its file, and an
\* "unmatched" key holds the complement.
C9_KeysOneToOne ==
    fpc = "done" =>
        LET d == out_json[1]
        IN  /\ Cardinality(MatchedKeys(d)) = Len(filter_files)
            /\ \A i \in Tasks :
                LET k == Stem(filter_files[i])
                IN  k \in MatchedKeys(d) /\ d[k] = task_result[i][k]
            /\ UnmatchedKey \in DOMAIN d => d[UnmatchedKey] = ComplementOf(d)

\* what find_matches is expected to write, from its inputs alone
ExpectedMatches(k) ==
    LET members == bloom[filter_files[LastListed(k)]].members
    IN  Pick(smiles_file, {n \in 1..Len(smiles_file) : smiles_file[n] \in members})
ExpectedMapping ==
    LET merge == [k \in Identities |-> ExpectedMatches(k)]
    IN  IF include_unmatched
        THEN LET matched == UNION {Range(merge[k]) : k \in Identities \ {UnmatchedKey}}
                 rest == {n \in 1..Len(smiles_file) : smiles_file[n] \notin matched}
             IN  [k \in Identities \cup {UnmatchedKey} |->
                    IF k = UnmatchedKey THEN Pick(smiles_file, rest) ELSE merge[k]]
        ELSE merge

\* C10: the written mapping is a function of the list of filter files, the
\* queries, the filters and include_unmatched alone: each key holds the
\* matches of the last listed path of its identity, for every order of
\* completion and every pool size.
C10_ResultIsFunctionOfInputs ==
    fpc = "done" => out_json = <<ExpectedMapping>>

C10_Witness ==
    /\ fpc = "done"
    /\ include_unmatched
    /\ num_procs = 2
    /\ arrival = <<2, 1>>
    /\ SameIdentity(1, 2)
    /\ bloom[filter_files[1]] # bloom[filter_files[2]]

=============================================================================
